---- MODULE Spec2Model ----
(***************************************************************************)
(* A model of LSDynaToRaw.cpp: the keyfile lexer (KeyFileLexer), the block *)
(* parser (KeyFile::Parse and its Accept* helpers), the mesh containers    *)
(* (Nodes, Elements, FiniteElementObject), IsolatePart, Renumber_Nodes and *)
(* the driver loop of main.                                                *)
(*                                                                         *)
(* Characters are one-character strings, a stream is a sequence of them    *)
(* and a position; vector positions keep the C++ 0-based values, so the    *)
(* entry at C++ position k is element k+1 of the TLA+ sequence.            *)
(***************************************************************************)
EXTENDS Integers, Sequences, FiniteSets, TLC

(***************************************************************************)
(* Small helpers                                                           *)
(***************************************************************************)
EmptyMap == [k \in {} |-> 0]

\* std::map operator[] used as an assignment: m[k] = v
MapPut(m, k, v) == [j \in DOMAIN m \cup {k} |-> IF j = k THEN v ELSE m[j]]

\* std::map operator[] used as a read: a missing key is inserted with the
\* value-initialised mapped value d
MapTouch(m, k, d) == IF k \in DOMAIN m THEN m ELSE MapPut(m, k, d)

Range(s) == {s[i] : i \in DOMAIN s}

RECURSIVE Pow10(_)
Pow10(n) == IF n <= 0 THEN 1 ELSE 10 * Pow10(n - 1)

(***************************************************************************)
(* Characters                                                              *)
(***************************************************************************)
\* what stream.peek() / stream.get() give at the end of the stream
EOFc == "EOF"

DigitChars == <<"0", "1", "2", "3", "4", "5", "6", "7", "8", "9">>
Digits == Range(DigitChars)
DigitVal(c) == (CHOOSE i \in DOMAIN DigitChars : DigitChars[i] = c) - 1

\* std::isspace in the classic locale; VT stands for 0x0b
SpaceChars == {" ", "\t", "\n", "VT", "\f", "\r"}
isspace(c) == c \in SpaceChars
isdigit(c) == c \in Digits

LowerChars == <<"a", "b", "c", "d", "e", "f", "g", "h", "i", "j", "k", "l", "m",
                "n", "o", "p", "q", "r", "s", "t", "u", "v", "w", "x", "y", "z">>
UpperChars == <<"A", "B", "C", "D", "E", "F", "G", "H", "I", "J", "K", "L", "M",
                "N", "O", "P", "Q", "R", "S", "T", "U", "V", "W", "X", "Y", "Z">>
ToUpper(c) ==
    IF c \in Range(LowerChars)
    THEN UpperChars[CHOOSE i \in DOMAIN LowerChars : LowerChars[i] = c]
    ELSE c

\* strcmpi0 comparing only the first Len(b) characters of a
strcmpi0_Prefix(a, b) ==
    /\ Len(a) >= Len(b)
    /\ \A k \in DOMAIN b : ToUpper(a[k]) = ToUpper(b[k])

\* strcmpi(a, b) == 0
strcmpi0(a, b) ==
    /\ Len(a) = Len(b)
    /\ \A i \in DOMAIN a : ToUpper(a[i]) = ToUpper(b[i])

(***************************************************************************)
(* boost::lexical_cast                                                     *)
(***************************************************************************)
RECURSIVE DigitsVal(_)
DigitsVal(s) ==
    IF s = << >> THEN 0
    ELSE 10 * DigitsVal(SubSeq(s, 1, Len(s) - 1)) + DigitVal(s[Len(s)])

AllDigits(s) == \A i \in DOMAIN s : isdigit(s[i])

\* lexical_cast<int>: an optional sign and at least one digit, nothing else
lexical_cast_int(s) ==
    LET neg  == s # << >> /\ s[1] = "-"
        sgn  == s # << >> /\ s[1] \in {"-", "+"}
        body == IF sgn THEN Tail(s) ELSE s
    IN  IF body # << >> /\ AllDigits(body)
        THEN [ok |-> TRUE, val |-> IF neg THEN 0 - DigitsVal(body) ELSE DigitsVal(body)]
        ELSE [ok |-> FALSE, val |-> 0]

\* A double is kept as the decimal m * 10^e with m not divisible by 10
\* (0 is m = 0, e = 0), which is exact for the short decimal literals read.
RECURSIVE DNorm(_, _)
DNorm(m, e) ==
    IF m = 0 THEN [m |-> 0, e |-> 0]
    ELSE IF m % 10 = 0 THEN DNorm(m \div 10, e + 1)
    ELSE [m |-> m, e |-> e]

DInt(n) == DNorm(n, 0)

\* conversion double -> int as in "nids[i] = lexical_cast<double>(..)":
\* truncation toward zero
DToInt(d) ==
    IF d.e >= 0 THEN d.m * Pow10(d.e)
    ELSE IF d.m >= 0 THEN d.m \div Pow10(0 - d.e)
    ELSE 0 - ((0 - d.m) \div Pow10(0 - d.e))

\* length of the longest prefix of s made of digits
RECURSIVE DigitRun(_)
DigitRun(s) ==
    IF s # << >> /\ isdigit(s[1]) THEN 1 + DigitRun(Tail(s)) ELSE 0

Drop(s, n) == SubSeq(s, n + 1, Len(s))
Take(s, n) == SubSeq(s, 1, n)

\* lexical_cast<double>: [sign] digits [. digits] [(e|E) [sign] digits], with
\* a digit before or after the point, the whole text consumed; a text that
\* ends in e, E, + or - is rejected
lexical_cast_double(s) ==
    LET sgn   == s # << >> /\ s[1] \in {"-", "+"}
        neg   == s # << >> /\ s[1] = "-"
        s1    == IF sgn THEN Tail(s) ELSE s
        ni    == DigitRun(s1)
        ip    == Take(s1, ni)
        s2    == Drop(s1, ni)
        dot   == s2 # << >> /\ s2[1] = "."
        s3    == IF dot THEN Tail(s2) ELSE s2
        nf    == IF dot THEN DigitRun(s3) ELSE 0
        fp    == Take(s3, nf)
        s4    == Drop(s3, nf)
        hasE  == s4 # << >> /\ s4[1] \in {"e", "E"}
        s5    == IF hasE THEN Tail(s4) ELSE s4
        esgn  == hasE /\ s5 # << >> /\ s5[1] \in {"-", "+"}
        eneg  == hasE /\ s5 # << >> /\ s5[1] = "-"
        s6    == IF esgn THEN Tail(s5) ELSE s5
        ne    == IF hasE THEN DigitRun(s6) ELSE 0
        ep    == Take(s6, ne)
        rest  == Drop(s6, ne)
        ok    == /\ ni + nf > 0
                 /\ hasE => ne > 0
                 /\ rest = << >>
        mant  == DigitsVal(ip \o fp)
        ex    == (IF eneg THEN 0 - DigitsVal(ep) ELSE DigitsVal(ep)) - nf
    IN  IF ok
        THEN [ok |-> TRUE, val |-> DNorm(IF neg THEN 0 - mant ELSE mant, ex)]
        ELSE [ok |-> FALSE, val |-> DInt(0)]

(***************************************************************************)
(* LexerSymbol                                                             *)
(***************************************************************************)
SymbolTypes == {"WHITESPACE", "NEWLINE", "COMMENT", "COMMA", "ASTERISK", "WORD",
                "NUMBER", "END_OF_FILE"}

Sym(t, text) == [type |-> t, symbol |-> text]

(***************************************************************************)
(* KeyFileLexer.  A lexer is [pos, state, current_line, currentSymbol]:    *)
(* pos counts the characters of the stream consumed so far.                *)
(***************************************************************************)
peek(src, p) == IF p < Len(src) THEN src[p + 1] ELSE EOFc

\* the position after the longest run of characters of cs that starts at p
RECURSIVE ScanIn(_, _, _)
ScanIn(src, p, cs) ==
    IF p < Len(src) /\ src[p + 1] \in cs THEN ScanIn(src, p + 1, cs) ELSE p

\* the position after the longest run of characters outside cs
RECURSIVE ScanNotIn(_, _, _)
ScanNotIn(src, p, cs) ==
    IF p < Len(src) /\ src[p + 1] \notin cs THEN ScanNotIn(src, p + 1, cs) ELSE p

Text(src, from, to) == SubSeq(src, from + 1, to)

\* a freshly constructed lexer; currentSymbol is not read before the first
\* NextSymbol call sets it
KeyFileLexer == [pos |-> 0, state |-> 0, current_line |-> 1,
                 currentSymbol |-> Sym("END_OF_FILE", << >>)]

\* IgnoreComment without the ignore() of the newline
IgnoreComment_KeepNewline(src, p) == ScanNotIn(src, p, {"\n"})

\* the stream position after IgnoreComment: everything up to the newline
\* or the end of the stream, then one more character ("if (c = '\n')" is an
\* assignment, so the ignore() is unconditional; at the end of the stream
\* it consumes nothing)
IgnoreComment(src, p) ==
    LET q == ScanNotIn(src, p, {"\n"})
    IN  IF q < Len(src) THEN q + 1 ELSE q

\* while (c == '$') { c = IgnoreComment(); current_line += 1; }
RECURSIVE SkipComments(_, _, _)
SkipComments(src, p, line) ==
    IF peek(src, p) = "$"
    THEN SkipComments(src, IgnoreComment(src, p), line + 1)
    ELSE [pos |-> p, line |-> line]

AcceptAsterisk(src, lx) ==
    [S |-> Sym("ASTERISK", <<"*">>),
     lx |-> [lx EXCEPT !.pos = @ + 1, !.state = 1]]

AcceptNewline(src, lx) ==
    [S |-> Sym("NEWLINE", <<"\n">>),
     lx |-> [lx EXCEPT !.pos = @ + 1, !.state = 0]]

AcceptWhitespace(src, lx) ==
    LET q == ScanIn(src, lx.pos + 1, SpaceChars \ {"\n"})
    IN  [S |-> Sym("WHITESPACE", Text(src, lx.pos, q)),
         lx |-> [lx EXCEPT !.pos = q, !.state = 1]]

AcceptWord(src, lx) ==
    LET q == ScanNotIn(src, lx.pos + 1, SpaceChars)
    IN  [S |-> Sym("WORD", Text(src, lx.pos, q)),
         lx |-> [lx EXCEPT !.pos = q, !.state = 1]]

\* AcceptNumber leaves the lexer state as it is
AcceptNumber(src, lx) ==
    LET p1 == lx.pos + 1
        p2 == ScanIn(src, p1, Digits)
        p3 == IF peek(src, p2) = "." THEN p2 + 1 ELSE p2
        p4 == ScanIn(src, p3, Digits)
        p5 == IF peek(src, p4) \in {"e", "E"} THEN p4 + 1 ELSE p4
        p6 == IF peek(src, p5) \in {"-", "+"} THEN p5 + 1 ELSE p5
        p7 == ScanIn(src, p6, Digits)
    IN  [S |-> Sym("NUMBER", Text(src, lx.pos, p7)),
         lx |-> [lx EXCEPT !.pos = p7]]

\* case 0 of NextSymbol: at the beginning of a line
NextSymbol0(src, lx0) ==
    LET sk == SkipComments(src, lx0.pos, lx0.current_line)
        lx == [lx0 EXCEPT !.pos = sk.pos, !.current_line = sk.line]
        c  == peek(src, lx.pos)
    IN  IF c = "*" THEN AcceptAsterisk(src, lx)
        ELSE IF c = "\n"
        THEN LET r == AcceptNewline(src, lx)
             IN  [r EXCEPT !.lx.current_line = @ + 1]
        ELSE IF c \in {" ", "\t", "\f", "VT"} THEN AcceptWhitespace(src, lx)
        ELSE IF c = "," THEN [S |-> Sym("COMMA", <<",">>), lx |-> lx]
        ELSE IF c \in Digits \cup {"-"} THEN AcceptNumber(src, lx)
        ELSE IF c = EOFc
        THEN [S |-> Sym("END_OF_FILE", << >>), lx |-> [lx EXCEPT !.state = -1]]
        ELSE AcceptWord(src, lx)

\* case 1 of NextSymbol: not at the beginning of a line
NextSymbol1(src, lx) ==
    LET c == peek(src, lx.pos)
    IN  IF c = "\n"
        THEN LET r == AcceptNewline(src, lx)
             IN  [r EXCEPT !.lx.current_line = @ + 1]
        ELSE IF c \in {" ", "\t", "\f", "VT"} THEN AcceptWhitespace(src, lx)
        ELSE IF c \in Digits \cup {"-"} THEN AcceptNumber(src, lx)
        ELSE IF c = EOFc
        THEN [S |-> Sym("END_OF_FILE", << >>), lx |-> [lx EXCEPT !.state = -1]]
        ELSE AcceptWord(src, lx)

\* NextSymbol: the set of results [S, lx] the call can have.  In state -1
\* (after END_OF_FILE) no case of the switch matches and the returned symbol
\* is the default-constructed one: an empty text and a type that was never
\* written, so any type.
NextSymbol(src, lx) ==
    LET rs == IF lx.state = 0 THEN {NextSymbol0(src, lx)}
              ELSE IF lx.state = 1 THEN {NextSymbol1(src, lx)}
              ELSE {[S |-> Sym(t, << >>), lx |-> lx] : t \in SymbolTypes}
    IN  {[r EXCEPT !.lx.currentSymbol = r.S] : r \in rs}

(***************************************************************************)
(* Nodes, Elements, FiniteElementObject.  The eight vectors n1..n8 of      *)
(* Elements are kept as one vector n of 8-tuples (the Element typedef).    *)
(***************************************************************************)
NSlots == 8

NoNodes == [nids |-> << >>, x |-> << >>, y |-> << >>, z |-> << >>]
NoElements == [eids |-> << >>, pids |-> << >>, n |-> << >>]
FiniteElementObject ==
    [nodes |-> NoNodes, elements |-> NoElements,
     element_index |-> EmptyMap, node_index |-> EmptyMap]

\* Nodes::AddNode(int id, Node const &x_)
AddNode(nodes, id, c) ==
    [nids |-> Append(nodes.nids, id), x |-> Append(nodes.x, c[1]),
     y |-> Append(nodes.y, c[2]), z |-> Append(nodes.z, c[3])]

\* Nodes::GetNode(int k)
GetNode(nodes, k) == <<nodes.x[k + 1], nodes.y[k + 1], nodes.z[k + 1]>>

\* AddElement without the look-up of the element id
AddElement_NoLookup(els, eid_, pid_, e_) ==
    [ok |-> TRUE,
     els |-> [eids |-> Append(els.eids, eid_),
              pids |-> Append(els.pids, pid_),
              n    |-> Append(els.n, e_)]]

\* Elements::AddElement: ok = FALSE is the throw of "Found two elements with
\* the same element id", which leaves the vectors as they were
AddElement(els, eid_, pid_, e_) ==
    IF eid_ \in Range(els.eids)
    THEN [ok |-> FALSE, els |-> els]
    ELSE [ok |-> TRUE,
          els |-> [eids |-> Append(els.eids, eid_),
                   pids |-> Append(els.pids, pid_),
                   n    |-> Append(els.n, e_)]]

\* FiniteElementObject::GetNode(int nid)
GetNodeById(o, nid) == GetNode(o.nodes, o.node_index[nid])

(***************************************************************************)
(* IsolatePart.  The state of the loop is [part, objects, err]: objects is *)
(* passed by non-const reference and objects.node_index[nid] inserts a     *)
(* missing nid with position 0; x.at(old_index) throws std::out_of_range   *)
(* when the node vectors have no such position.                            *)
(***************************************************************************)
\* the body of one of the eight "copy only the nodes that aren't already in
\* the set" blocks, for the slot value nid
PushNode(st, nid) ==
    LET objs      == [st.objects EXCEPT !.node_index = MapTouch(@, nid, 0)]
        old_index == objs.node_index[nid]
        nids1     == Append(st.part.nodes.nids, nid)
    IN  IF old_index < 0 \/ old_index >= Len(objs.nodes.x)
        THEN [part    |-> [st.part EXCEPT !.nodes.nids = nids1],
              objects |-> objs,
              err     |-> "out_of_range"]
        ELSE [part |->
                [st.part EXCEPT
                   !.nodes = [nids |-> nids1,
                              x |-> Append(@.x, objs.nodes.x[old_index + 1]),
                              y |-> Append(@.y, objs.nodes.y[old_index + 1]),
                              z |-> Append(@.z, objs.nodes.z[old_index + 1])],
                   !.node_index = MapPut(@, nid, Len(st.part.nodes.x))],
              objects |-> objs,
              err     |-> "none"]

\* CopyNode without the look-up in part.node_index
CopyNode_NoLookup(st, nid) ==
    IF st.err # "none" THEN st
    ELSE IF nid # 0 THEN PushNode(st, nid)
    ELSE st

\* one of the eight blocks: the condition and the body
CopyNode(st, nid) ==
    IF st.err # "none" THEN st
    ELSE IF nid \notin DOMAIN st.part.node_index /\ nid # 0 THEN PushNode(st, nid)
    ELSE st

RECURSIVE CopyNodes(_, _, _)
CopyNodes(st, e, k) ==
    IF k > NSlots THEN st ELSE CopyNodes(CopyNode(st, e[k]), e, k + 1)

\* the body of the loop over objects.elements for the 0-based position i
IsolateElement(st, i, pid) ==
    LET els == st.objects.elements
    IN  IF st.err # "none" \/ els.pids[i + 1] # pid THEN st
        ELSE LET p1 == [st.part EXCEPT
                          !.elements = [eids |-> Append(@.eids, els.eids[i + 1]),
                                        pids |-> Append(@.pids, els.pids[i + 1]),
                                        n    |-> Append(@.n, els.n[i + 1])],
                          !.element_index =
                              MapPut(@, els.eids[i + 1], Len(st.part.elements.eids))]
             IN  CopyNodes([st EXCEPT !.part = p1], els.n[i + 1], 1)

RECURSIVE IsolateLoop(_, _, _)
IsolateLoop(st, i, pid) ==
    IF i >= Len(st.objects.elements.eids) THEN st
    ELSE IsolateLoop(IsolateElement(st, i, pid), i + 1, pid)

\* IsolatePart with the loop over the elements started at position 1
IsolatePart_From1(parts, objects, pid) ==
    IsolateLoop([part |-> FiniteElementObject, objects |-> objects, err |-> "none"],
                1, pid)

IsolatePart(parts, objects, pid) ==
    IsolateLoop([part |-> FiniteElementObject, objects |-> objects, err |-> "none"],
                0, pid)

(***************************************************************************)
(* Renumber_Nodes                                                          *)
(***************************************************************************)
\* RenumberNodeLoop with R.node_index keyed by the old node id
RECURSIVE RenumberNodeLoop_OldKey(_, _, _)
RenumberNodeLoop_OldKey(part, j, st) ==
    IF j >= Len(part.nodes.nids) THEN st
    ELSE RenumberNodeLoop_OldKey(part, j + 1,
            [node_remap |-> MapPut(st.node_remap, part.nodes.nids[j + 1], j + 1),
             R |-> [st.R EXCEPT
                      !.nodes = [nids |-> Append(@.nids, j + 1),
                                 x |-> Append(@.x, part.nodes.x[j + 1]),
                                 y |-> Append(@.y, part.nodes.y[j + 1]),
                                 z |-> Append(@.z, part.nodes.z[j + 1])],
                      !.node_index = MapPut(@, part.nodes.nids[j + 1], j)]])

\* the loop over part.nodes: st is [node_remap, R]
RECURSIVE RenumberNodeLoop(_, _, _)
RenumberNodeLoop(part, j, st) ==
    IF j >= Len(part.nodes.nids) THEN st
    ELSE RenumberNodeLoop(part, j + 1,
            [node_remap |-> MapPut(st.node_remap, part.nodes.nids[j + 1], j + 1),
             R |-> [st.R EXCEPT
                      !.nodes = [nids |-> Append(@.nids, j + 1),
                                 x |-> Append(@.x, part.nodes.x[j + 1]),
                                 y |-> Append(@.y, part.nodes.y[j + 1]),
                                 z |-> Append(@.z, part.nodes.z[j + 1])],
                      !.node_index = MapPut(@, j + 1, j)]])

\* Remapped giving the 0-based position of the node
Remapped_ZeroBased(node_remap, id) ==
    IF id \in DOMAIN node_remap /\ id # 0 THEN node_remap[id] - 1 ELSE 0

\* node_remap[id] as a read: a missing id is inserted with value 0, and 0
\* is what the read gives
Remapped(node_remap, id) == IF id \in DOMAIN node_remap THEN node_remap[id] ELSE 0

\* the loop over part.elements; AddElement cannot throw here, the ids
\* j+1 being distinct; R.element_index is not written
RECURSIVE RenumberElementLoop(_, _, _, _)
RenumberElementLoop(part, node_remap, j, R) ==
    IF j >= Len(part.elements.eids) THEN R
    ELSE LET ej     == part.elements.n[j + 1]
             ej_new == [k \in 1..NSlots |-> Remapped(node_remap, ej[k])]
             pid    == part.elements.pids[j + 1]
         IN  RenumberElementLoop(part, node_remap, j + 1,
                [R EXCEPT !.elements = AddElement(@, j + 1, pid, ej_new).els])

Renumber_Nodes(part) ==
    LET st == RenumberNodeLoop(part, 0,
                 [node_remap |-> MapPut(EmptyMap, 0, 0), R |-> FiniteElementObject])
    IN  RenumberElementLoop(part, st.node_remap, 0, st.R)

(***************************************************************************)
(* KeyFile: the members obj, part_names and parts                          *)
(***************************************************************************)
\* AcceptNode, "Now add the node"
StoreNode(o, nid, c) ==
    LET nodes1 == AddNode(o.nodes, nid, c)
    IN  [o EXCEPT !.nodes = nodes1,
                  !.node_index = MapPut(@, nid, Len(nodes1.nids) - 1)]

\* StoreElement without the insertion into the list of the element's part
StoreElement_NoSublist(kf, eid, pid, nids) ==
    LET a == AddElement(kf.obj.elements, eid, pid, nids)
    IN  IF ~a.ok THEN [ok |-> FALSE, obj |-> kf.obj, parts |-> kf.parts]
        ELSE [ok |-> TRUE,
              obj |-> [kf.obj EXCEPT
                         !.elements = a.els,
                         !.element_index = MapPut(@, eid, Len(a.els.eids) - 1)],
              parts |-> kf.parts]

\* AcceptElement, "Now add the element", on kf = [obj, parts]; ok = FALSE is
\* the throw of AddElement, before which nothing was written
StoreElement(kf, eid, pid, nids) ==
    LET a == AddElement(kf.obj.elements, eid, pid, nids)
    IN  IF ~a.ok THEN [ok |-> FALSE, obj |-> kf.obj, parts |-> kf.parts]
        ELSE LET obj1   == [kf.obj EXCEPT
                              !.elements = a.els,
                              !.element_index = MapPut(@, eid, Len(a.els.eids) - 1)]
                 parts1 == MapTouch(kf.parts, pid, NoElements)
                 b      == AddElement(parts1[pid], eid, pid, nids)
             IN  IF ~b.ok THEN [ok |-> FALSE, obj |-> obj1, parts |-> parts1]
                 ELSE [ok |-> TRUE, obj |-> obj1,
                       parts |-> MapPut(parts1, pid, b.els)]

\* the keyword dispatch of Parse, case 1
Keyword(sym) ==
    IF sym.type # "WORD" THEN 0
    ELSE IF strcmpi0(sym.symbol, <<"N", "O", "D", "E">>) THEN 2
    ELSE IF strcmpi0(sym.symbol,
              <<"E", "L", "E", "M", "E", "N", "T", "_", "S", "O", "L", "I", "D">>) THEN 3
    ELSE IF strcmpi0(sym.symbol,
              <<"E", "L", "E", "M", "E", "N", "T", "_", "S", "H", "E", "L", "L">>) THEN 3
    ELSE IF strcmpi0(sym.symbol,
              <<"E", "L", "E", "M", "E", "N", "T", "_", "B", "E", "A", "M">>) THEN 3
    ELSE IF strcmpi0(sym.symbol, <<"P", "A", "R", "T">>) THEN 4
    ELSE IF strcmpi0(sym.symbol,
              <<"P", "A", "R", "T", "_", "I", "N", "E", "R", "T", "I", "A">>) THEN 4
    ELSE 0

\* the switch of Parse for the symbols that call no Accept function: the
\* next value of state
SwitchState(st, sym) ==
    IF st = 0 THEN (IF sym.type = "ASTERISK" THEN 1 ELSE 0)
    ELSE IF st = 1 THEN Keyword(sym)
    ELSE IF sym.type \in {"WHITESPACE", "NEWLINE"} THEN st
    ELSE IF sym.type = "ASTERISK" THEN 1
    ELSE 0

\* the symbols for which the switch calls AcceptNode, AcceptElement or
\* AcceptPart
CallsAccept(st, sym) ==
    \/ st \in {2, 3} /\ sym.type = "NUMBER"
    \/ st = 4 /\ sym.type = "WORD"

\* the keys of a std::map in iteration order
RECURSIVE SortedKeys(_)
SortedKeys(ks) ==
    IF ks = {} THEN << >>
    ELSE LET k == CHOOSE a \in ks : \A b \in ks : a <= b
         IN  <<k>> \o SortedKeys(ks \ {k})

\* the print loop at the end of Parse: part_names[pid] inserts an empty name
\* for every part that has elements and no name
RECURSIVE TouchNames(_, _)
TouchNames(names, ks) ==
    IF ks = << >> THEN names
    ELSE TouchNames(MapTouch(names, Head(ks), << >>), Tail(ks))

\* OutputToFiles: the number of distinct part ids of the object
DistinctPids(o) == Cardinality(Range(o.elements.pids))

(***************************************************************************)
(* Input files.  A run is the vector input_files of main: the contents of  *)
(* the files, in order.                                                    *)
(***************************************************************************)
\* the end-to-end scenario, comma-separated
F_EndToEnd ==
    <<"*", "N", "O", "D", "E", "\n", "1", ",", "0", ".", "0", ",", "0", ".",
      "0", ",", "0", ".", "0", "\n", "2", ",", "1", ".", "0", ",", "0", ".",
      "0", ",", "0", ".", "0", "\n", "*", "E", "L", "E", "M", "E", "N", "T",
      "_", "S", "H", "E", "L", "L", "\n", "1", "0", ",", "5", ",", "1", ",",
      "2", ",", "0", ",", "0", ",", "0", ",", "0", ",", "0", ",", "0", "\n",
      "*", "P", "A", "R", "T", "\n", "P", "l", "a", "t", "e", "\n", "5", "\n">>

\* the same records separated by blanks
F_EndToEndWs ==
    <<"*", "N", "O", "D", "E", "\n", "1", " ", "0", ".", "0", " ", "0", ".",
      "0", " ", "0", ".", "0", "\n", "2", " ", "1", ".", "0", " ", "0", ".",
      "0", " ", "0", ".", "0", "\n", "*", "E", "L", "E", "M", "E", "N", "T",
      "_", "S", "H", "E", "L", "L", "\n", "1", "0", " ", "5", " ", "1", " ",
      "2", " ", "0", " ", "0", " ", "0", " ", "0", " ", "0", " ", "0", "\n",
      "*", "P", "A", "R", "T", "\n", "P", "l", "a", "t", "e", "\n", "5", "\n">>

\* one line of comma-separated numbers
F_CsvLine ==
    <<"1", ",", "2", ".", "5", ",", "-", "3", ".", "2", "E", "-", "0", "1",
      "\n">>

\* a node record without y and z
F_Malformed ==
    <<"*", "N", "O", "D", "E", "\n", "1", " ", "0", ".", "0", "\n">>

\* a good node record followed by a malformed one
F_PartialThenBad ==
    <<"*", "N", "O", "D", "E", "\n", "1", " ", "0", " ", "0", " ", "0", "\n",
      "2", " ", "0", ".", "0", "\n">>

\* two nodes and element 10 of part 5
F_Mesh ==
    <<"*", "N", "O", "D", "E", "\n", "1", " ", "0", " ", "0", " ", "0", "\n",
      "2", " ", "1", " ", "0", " ", "0", "\n", "*", "E", "L", "E", "M", "E",
      "N", "T", "_", "S", "H", "E", "L", "L", "\n", "1", "0", " ", "5", " ",
      "1", " ", "2", " ", "0", " ", "0", " ", "0", " ", "0", " ", "0", " ",
      "0", "\n">>

\* element 10 again, of part 6
F_Elem10 ==
    <<"*", "E", "L", "E", "M", "E", "N", "T", "_", "S", "O", "L", "I", "D",
      "\n", "1", "0", " ", "6", " ", "1", " ", "1", " ", "0", " ", "0", " ",
      "0", " ", "0", " ", "0", " ", "0", "\n">>

\* element 11 of part 6 and the name of part 6
F_Elem11 ==
    <<"*", "e", "l", "e", "m", "e", "n", "t", "_", "b", "e", "a", "m", "\n",
      "1", "1", " ", "6", " ", "2", " ", "1", " ", "0", " ", "0", " ", "0",
      " ", "0", " ", "0", " ", "2", "\n", "*", "P", "a", "r", "t", "\n", "B",
      "e", "a", "m", " ", "2", "\n", " ", "6", "\n">>

\* element 12 twice in one file
F_ElemTwice ==
    <<"*", "N", "O", "D", "E", "\n", "3", " ", "0", " ", "0", " ", "1", "\n",
      "*", "E", "L", "E", "M", "E", "N", "T", "_", "S", "H", "E", "L", "L",
      "\n", "1", "2", " ", "5", " ", "3", " ", "0", " ", "0", " ", "0", " ",
      "0", " ", "0", " ", "0", " ", "0", "\n", "1", "2", " ", "5", " ", "0",
      " ", "3", " ", "0", " ", "0", " ", "0", " ", "0", " ", "0", " ", "0",
      "\n">>

\* comment lines at the start, inside a block and at the end
F_Comments ==
    <<"$", " ", "h", "e", "a", "d", "\n", "$", "\n", "*", "N", "O", "D", "E",
      "\n", "$", " ", "c", "\n", "1", " ", "0", " ", "0", " ", "0", "\n",
      "$", " ", "t", "a", "i", "l">>

\* a block with an unrecognized keyword between a node block and a part block
F_UnknownBlock ==
    <<"*", "N", "O", "D", "E", "\n", "1", " ", "0", " ", "0", " ", "0", "\n",
      "*", "F", "O", "O", "\n", "2", " ", "0", " ", "0", " ", "0", "\n", "n",
      "a", "m", "e", " ", "3", "\n", "*", "P", "A", "R", "T", "\n", "P", "l",
      "a", "t", "e", "\n", "5", "\n">>

\* an unrecognized keyword where the part id is expected
F_PartThenUnknown ==
    <<"*", "P", "A", "R", "T", "\n", "P", "l", "a", "t", "e", "\n", "*", "F",
      "O", "O", "\n", "5", "\n">>

\* a node block where the part id is expected
F_PartThenNode ==
    <<"*", "P", "A", "R", "T", "\n", "P", "l", "a", "t", "e", "\n", "*", "N",
      "O", "D", "E", "\n", "1", " ", "0", " ", "0", " ", "0", "\n">>

\* a node record with id 0
F_NodeZero ==
    <<"*", "N", "O", "D", "E", "\n", "0", " ", "1", " ", "2", " ", "3", "\n">>

\* keywords in mixed case, with a suffix, cut short, and lines with no word after the asterisk
F_Keywords ==
    <<"*", "N", "O", "D", "E", "S", "\n", "*", "N", "O", "D", "\n", "*", "n",
      "o", "d", "e", "\n", "*", "E", "L", "E", "M", "E", "N", "T", "\n", "*",
      "E", "l", "e", "m", "e", "n", "t", "_", "S", "o", "l", "i", "d", "\n",
      "*", "P", "A", "R", "T", "_", "I", "N", "E", "R", "T", "I", "A", "\n",
      "*", "P", "A", "R", "T", "_", "\n", "*", "x", "P", "A", "R", "T", "\n",
      "*", "\n", "*", " ", "N", "O", "D", "E", "\n", "*", "1", "\n">>

\* a node record cut off by the end of the file
F_NodeCut ==
    <<"*", "N", "O", "D", "E", "\n", "1", " ", "0", " ", "0", " ", "0">>

\* a node record with a word as its first coordinate
F_NodeWord ==
    <<"*", "N", "O", "D", "E", "\n", "1", " ", "x", " ", "0", " ", "0", "\n">>

\* an element record with four connectivity fields
F_ShortElement ==
    <<"*", "E", "L", "E", "M", "E", "N", "T", "_", "S", "H", "E", "L", "L",
      "\n", "1", "0", " ", "5", " ", "1", " ", "2", " ", "0", " ", "0", "\n">>

\* an element record with a word as its second connectivity field
F_ElementWord ==
    <<"*", "E", "L", "E", "M", "E", "N", "T", "_", "S", "O", "L", "I", "D",
      "\n", "1", "1", " ", "5", " ", "1", " ", "x", " ", "0", " ", "0", " ",
      "0", " ", "0", " ", "0", " ", "0", "\n">>

\* a comma in the first column
F_CommaFirst ==
    <<",", "\n">>

\* a part name line cut off by the end of the file
F_PartNameCut ==
    <<"*", "P", "A", "R", "T", "\n", "P", "l", "a">>

\* a part block with a name and no part id
F_PartNoId ==
    <<"*", "P", "A", "R", "T", "\n", "P", "l", "a", "t", "e", "\n">>

\* two part records with the same part id
F_PartTwice ==
    <<"*", "P", "A", "R", "T", "\n", "O", "l", "d", "\n", "5", "\n", " ",
      "N", "e", "w", " ", "1", "\n", "$", " ", "c", "\n", "\n", "5", "\n">>

\* a part name on the keyword line
F_PartSameLine ==
    <<"*", "P", "A", "R", "T", " ", "P", "l", "a", "t", "e", " ", "2", "\n",
      "7", "\n">>

\* numbers with signs, fractions and exponents
F_Minus ==
    <<"1", "-", "2", "\n", "3", ".", " ", "4", "e", "+", "5", " ", "6", "E",
      " ", "7", ".", "5", "e", "-", "1", "x", " ", "-", "\n">>

\* two node records with the same id
F_NodeTwice ==
    <<"*", "N", "O", "D", "E", "\n", "1", " ", "0", " ", "0", " ", "0", "\n",
      "1", " ", "5", " ", "5", " ", "5", "\n">>

\* records before the first keyword line
F_RecordsFirst ==
    <<"3", " ", "0", " ", "0", " ", "0", "\n", "1", "2", " ", "5", " ", "1",
      " ", "2", " ", "0", " ", "0", " ", "0", " ", "0", " ", "0", " ", "0",
      "\n", "n", "a", "m", "e", "\n", "9", "\n", "*", "N", "O", "D", "E",
      "\n", "4", " ", "0", " ", "0", " ", "0", "\n">>

\* elements of two parts, interleaved
F_TwoParts ==
    <<"*", "N", "O", "D", "E", "\n", "1", " ", "0", " ", "0", " ", "0", "\n",
      "2", " ", "1", " ", "0", " ", "0", "\n", "*", "E", "L", "E", "M", "E",
      "N", "T", "_", "S", "O", "L", "I", "D", "\n", "2", "0", " ", "7", " ",
      "1", " ", "2", " ", "0", " ", "0", " ", "0", " ", "0", " ", "0", " ",
      "0", "\n", "2", "1", " ", "8", " ", "2", " ", "0", " ", "0", " ", "0",
      " ", "0", " ", "0", " ", "0", " ", "0", "\n", "2", "2", " ", "7", " ",
      "2", " ", "1", " ", "0", " ", "0", " ", "0", " ", "0", " ", "0", " ",
      "0", "\n">>

ScenarioFiles ==
    {F_EndToEnd, F_EndToEndWs, F_CsvLine, F_Malformed, F_PartialThenBad, F_Mesh,
     F_Elem10, F_Elem11, F_ElemTwice, F_Comments, F_UnknownBlock,
     F_PartThenUnknown, F_PartThenNode, F_NodeZero, F_Keywords, F_NodeCut,
     F_NodeWord, F_ShortElement, F_ElementWord, F_CommaFirst, F_PartNameCut,
     F_PartNoId, F_PartTwice, F_PartSameLine, F_Minus, F_NodeTwice,
     F_RecordsFirst, F_TwoParts}

\* files appended in pairs
PairFiles == {F_Mesh, F_Elem10, F_Elem11, F_ElemTwice, F_PartialThenBad, F_Comments}

\* generated files: a block header (or none) followed by up to MaxUnits
\* pieces of text
MaxUnits == 3

Units ==
    {<<"$">>, <<"\n">>, <<" ">>, <<"1">>, <<"x">>, <<"*">>, <<",">>,
     <<"$", "c", "\n">>, <<"2", " ", "0", " ", "0", " ", "0">>}

Prefixes ==
    {<< >>, <<"*", "N", "O", "D", "E", "\n">>, <<"*", "P", "A", "R", "T", "\n">>,
     <<"*", "E", "L", "E", "M", "E", "N", "T", "_", "S", "H", "E", "L", "L", "\n">>}

RECURSIVE UnitTexts(_)
UnitTexts(n) ==
    IF n = 0 THEN {<< >>}
    ELSE LET shorter == UnitTexts(n - 1)
         IN  shorter \cup {t \o u : t \in shorter, u \in Units}

GeneratedFiles == {p \o t : p \in Prefixes, t \in UnitTexts(MaxUnits)}

\* files that end inside a node, an element and a part block, each followed
\* by a file that starts with records
BlockThenRecords == {<<f, F_RecordsFirst>> : f \in {F_NodeTwice, F_Mesh, F_Elem11}}

Runs ==
    {<<f>> : f \in ScenarioFiles \cup GeneratedFiles}
        \cup {<<f, g>> : f \in PairFiles, g \in PairFiles}
        \cup BlockThenRecords

\* how many symbols of a file the history variable tokens records
MaxTokens == 8

(***************************************************************************)
(* The program: main appends the files to one KeyFile (Append, Parse and   *)
(* the Accept functions), then isolates, renumbers and writes each part.   *)
(* pc is the position in the code: one action per NextSymbol call site.    *)
(***************************************************************************)
VARIABLES
    files,       \* input_files
    i,           \* the index of main's loop over input_files
    pc,          \* the position in the code
    lexer,       \* KeyFile::lexer
    S,           \* the symbol held by Parse or by the running Accept function
    state,       \* the local state of Parse
    loc,         \* the locals of the running Accept function
    obj,         \* KeyFile::obj
    part_names,  \* KeyFile::part_names
    parts,       \* KeyFile::parts
    err,         \* the exception main has caught, if any
    tokens,      \* history: the symbols NextSymbol returned for this file
    m,           \* main's locals after the files are read
    outputs,     \* history: the objects handed to OutputToFiles that it wrote
    fx           \* the function under test and its argument (SpecDoc)

vars == <<files, i, pc, lexer, S, state, loc, obj, part_names, parts, err,
          tokens, m, outputs, fx>>

NoErr == [kind |-> "none", line |-> 0]
NoLoc == [nid |-> 0, c |-> << >>, eid |-> 0, pid |-> 0, nids |-> << >>,
          part_name |-> << >>]
NoMain == [part_names |-> EmptyMap, parts |-> EmptyMap,
           objects |-> FiniteElementObject, todo |-> << >>,
           part |-> FiniteElementObject, part_v2 |-> FiniteElementObject]
NoFx == [op |-> "none", from |-> "none", arg |-> FiniteElementObject, pid |-> 0,
         res |-> FiniteElementObject, objects |-> FiniteElementObject,
         err |-> "none"]

\* the stream of the file being parsed
src == files[i + 1]

\* the history of NextSymbol results: the symbol and the stream position
\* before and after the call, for the calls up to the one that returns
\* END_OF_FILE
Entry(lx, r) ==
    [type |-> r.S.type, symbol |-> r.S.symbol, start |-> lx.pos, end |-> r.lx.pos]

Logged(r) ==
    IF Len(tokens) < MaxTokens /\ lexer.state # -1
    THEN Append(tokens, Entry(lexer, r))
    ELSE tokens

\* lexer->NextSymbol() with result r
Call(r) ==
    /\ r \in NextSymbol(src, lexer)
    /\ lexer' = r.lx
    /\ S' = r.S
    /\ tokens' = Logged(r)

\* an exception leaves Parse and Append and is caught at the end of main
Throw(kind, line) ==
    /\ err' = [kind |-> kind, line |-> line]
    /\ pc' = "Done"

\* IsSeparator taking a NEWLINE for a separator as well
IsSeparator_OrNewline(sym) == sym.type \in {"WHITESPACE", "COMMA", "NEWLINE"}

\* S.type == WHITESPACE || S.type == COMMA
IsSeparator(sym) == sym.type \in {"WHITESPACE", "COMMA"}

\* main starts with the input files named on the command line
Start(runs) ==
    /\ files \in runs
    /\ i = 0
    /\ pc = "Append"
    /\ lexer = KeyFileLexer
    /\ S = Sym("END_OF_FILE", << >>)
    /\ state = 0
    /\ loc = NoLoc
    /\ obj = FiniteElementObject
    /\ part_names = EmptyMap
    /\ parts = EmptyMap
    /\ err = NoErr
    /\ tokens = << >>
    /\ m = NoMain
    /\ outputs = << >>
    /\ fx = NoFx

Init == Start(Runs)

\* KeyFile_Append with the state of Parse kept from the file before
KeyFile_Append_KeepState ==
    /\ pc = "Append"
    /\ \E r \in NextSymbol(src, KeyFileLexer) :
          /\ lexer' = r.lx
          /\ S' = r.S
          /\ tokens' = <<Entry(KeyFileLexer, r)>>
    /\ state' = state
    /\ pc' = "Switch"
    /\ UNCHANGED <<files, i, loc, obj, part_names, parts, err, m, outputs, fx>>

\* kf.Append(input_files.at(i)): Parse opens the file, makes the lexer and
\* reads the first symbol
KeyFile_Append ==
    /\ pc = "Append"
    /\ \E r \in NextSymbol(src, KeyFileLexer) :
          /\ lexer' = r.lx
          /\ S' = r.S
          /\ tokens' = <<Entry(KeyFileLexer, r)>>
    /\ state' = 0
    /\ pc' = "Switch"
    /\ UNCHANGED <<files, i, loc, obj, part_names, parts, err, m, outputs, fx>>

\* the loop of Parse ends at END_OF_FILE; Parse prints its summary, resets
\* the lexer (the history of its symbols ends with it) and returns, and main
\* goes on to the next file or to the loop over the parts
ParseEnd ==
    /\ pc = "Switch"
    /\ S.type = "END_OF_FILE"
    /\ part_names' = TouchNames(part_names, SortedKeys(DOMAIN parts))
    /\ i' = i + 1
    /\ IF i + 1 < Len(files)
       THEN /\ pc' = "Append"
            /\ m' = m
       ELSE /\ m' = [part_names |-> part_names', parts |-> parts, objects |-> obj,
                     todo |-> SortedKeys(DOMAIN parts),
                     part |-> FiniteElementObject, part_v2 |-> FiniteElementObject]
            /\ pc' = IF DOMAIN parts = {} THEN "Done" ELSE "Isolate"
    /\ tokens' = << >>
    /\ UNCHANGED <<files, lexer, S, state, loc, obj, parts, err, outputs, fx>>

\* the switch of Parse on a symbol that calls no Accept function
ParseSwitch ==
    /\ pc = "Switch"
    /\ S.type # "END_OF_FILE"
    /\ ~CallsAccept(state, S)
    /\ state' = SwitchState(state, S)
    /\ pc' = "Next"
    /\ UNCHANGED <<files, i, lexer, S, loc, obj, part_names, parts, err, tokens, m,
                   outputs, fx>>

\* S = lexer->NextSymbol() at the end of the loop body of Parse
ParseNext ==
    /\ pc = "Next"
    /\ \E r \in NextSymbol(src, lexer) : Call(r)
    /\ pc' = "Switch"
    /\ UNCHANGED <<files, i, state, loc, obj, part_names, parts, err, m, outputs, fx>>

(***************************************************************************)
(* AcceptNode                                                              *)
(***************************************************************************)
\* case 2 of the switch on a NUMBER: AcceptNode starts by casting the id
EnterAcceptNode ==
    /\ pc = "Switch"
    /\ state = 2
    /\ S.type = "NUMBER"
    /\ LET nid == lexical_cast_int(lexer.currentSymbol.symbol)
       IN  IF nid.ok
           THEN /\ loc' = [NoLoc EXCEPT !.nid = nid.val]
                /\ pc' = "Node_sep"
                /\ err' = err
           ELSE /\ Throw("bad_lexical_cast", 0)
                /\ loc' = loc
    /\ UNCHANGED <<files, i, lexer, S, state, obj, part_names, parts, tokens, m,
                   outputs, fx>>

\* the symbol before each coordinate must be WHITESPACE or COMMA
AcceptNode_sep ==
    /\ pc = "Node_sep"
    /\ \E r \in NextSymbol(src, lexer) :
          /\ Call(r)
          /\ IF IsSeparator(r.S)
             THEN /\ pc' = "Node_coord"
                  /\ err' = err
             ELSE Throw("malformed", r.lx.current_line)
    /\ UNCHANGED <<files, i, state, loc, obj, part_names, parts, m, outputs, fx>>

\* the coordinate is whatever symbol comes next, cast to double
AcceptNode_coord ==
    /\ pc = "Node_coord"
    /\ \E r \in NextSymbol(src, lexer) :
          /\ Call(r)
          /\ LET v == lexical_cast_double(r.S.symbol)
             IN  IF v.ok
                 THEN /\ loc' = [loc EXCEPT !.c = Append(@, v.val)]
                      /\ pc' = IF Len(loc.c) + 1 = 3 THEN "Node_skip" ELSE "Node_sep"
                      /\ err' = err
                 ELSE /\ Throw("bad_lexical_cast", 0)
                      /\ loc' = loc
    /\ UNCHANGED <<files, i, state, obj, part_names, parts, m, outputs, fx>>

\* skip to the NEWLINE, then add the node and return to Parse
AcceptNode_skip ==
    /\ pc = "Node_skip"
    /\ \E r \in NextSymbol(src, lexer) :
          /\ Call(r)
          /\ IF r.S.type = "NEWLINE"
             THEN /\ obj' = StoreNode(obj, loc.nid, loc.c)
                  /\ loc' = NoLoc
                  /\ pc' = "Next"
             ELSE UNCHANGED <<obj, loc, pc>>
    /\ UNCHANGED <<files, i, state, part_names, parts, err, m, outputs, fx>>

(***************************************************************************)
(* AcceptElement                                                           *)
(***************************************************************************)
\* case 3 of the switch on a NUMBER: AcceptElement starts by casting the id
EnterAcceptElement ==
    /\ pc = "Switch"
    /\ state = 3
    /\ S.type = "NUMBER"
    /\ LET eid == lexical_cast_int(lexer.currentSymbol.symbol)
       IN  IF eid.ok
           THEN /\ loc' = [NoLoc EXCEPT !.eid = eid.val]
                /\ pc' = "Elem_sep0"
                /\ err' = err
           ELSE /\ Throw("bad_lexical_cast", 0)
                /\ loc' = loc
    /\ UNCHANGED <<files, i, lexer, S, state, obj, part_names, parts, tokens, m,
                   outputs, fx>>

\* the separator between the element id and the part id
AcceptElement_sep0 ==
    /\ pc = "Elem_sep0"
    /\ \E r \in NextSymbol(src, lexer) :
          /\ Call(r)
          /\ IF IsSeparator(r.S)
             THEN /\ pc' = "Elem_pid"
                  /\ err' = err
             ELSE Throw("malformed", r.lx.current_line)
    /\ UNCHANGED <<files, i, state, loc, obj, part_names, parts, m, outputs, fx>>

\* the part id must be a NUMBER and is cast to int
AcceptElement_pid ==
    /\ pc = "Elem_pid"
    /\ \E r \in NextSymbol(src, lexer) :
          /\ Call(r)
          /\ IF r.S.type # "NUMBER"
             THEN /\ Throw("malformed", r.lx.current_line)
                  /\ loc' = loc
             ELSE LET pid == lexical_cast_int(r.S.symbol)
                  IN  IF pid.ok
                      THEN /\ loc' = [loc EXCEPT !.pid = pid.val]
                           /\ pc' = "Elem_sep"
                           /\ err' = err
                      ELSE /\ Throw("bad_lexical_cast", 0)
                           /\ loc' = loc
    /\ UNCHANGED <<files, i, state, obj, part_names, parts, m, outputs, fx>>

\* the separator before each of the 8 connectivity fields
AcceptElement_sep ==
    /\ pc = "Elem_sep"
    /\ \E r \in NextSymbol(src, lexer) :
          /\ Call(r)
          /\ IF IsSeparator(r.S)
             THEN /\ pc' = "Elem_node"
                  /\ err' = err
             ELSE Throw("malformed", r.lx.current_line)
    /\ UNCHANGED <<files, i, state, loc, obj, part_names, parts, m, outputs, fx>>

\* a connectivity field must be a NUMBER; it is cast to double and stored
\* in an int.  After the 8th the element is added and AcceptElement returns.
AcceptElement_node ==
    /\ pc = "Elem_node"
    /\ \E r \in NextSymbol(src, lexer) :
          /\ Call(r)
          /\ IF r.S.type # "NUMBER"
             THEN /\ Throw("malformed", r.lx.current_line)
                  /\ UNCHANGED <<loc, obj, parts>>
             ELSE LET v == lexical_cast_double(r.S.symbol)
                      nids == Append(loc.nids, DToInt(v.val))
                  IN  IF ~v.ok
                      THEN /\ Throw("bad_lexical_cast", 0)
                           /\ UNCHANGED <<loc, obj, parts>>
                      ELSE IF Len(nids) < NSlots
                      THEN /\ loc' = [loc EXCEPT !.nids = nids]
                           /\ pc' = "Elem_sep"
                           /\ UNCHANGED <<err, obj, parts>>
                      ELSE LET st == StoreElement([obj |-> obj, parts |-> parts],
                                                  loc.eid, loc.pid, nids)
                           IN  /\ obj' = st.obj
                               /\ parts' = st.parts
                               /\ IF st.ok
                                  THEN /\ loc' = NoLoc
                                       /\ pc' = "Next"
                                       /\ err' = err
                                  ELSE /\ Throw("duplicate_element", 0)
                                       /\ loc' = [loc EXCEPT !.nids = nids]
    /\ UNCHANGED <<files, i, state, part_names, m, outputs, fx>>

(***************************************************************************)
(* AcceptPart                                                              *)
(***************************************************************************)
\* case 4 of the switch on a WORD: the name starts with the current symbol
EnterAcceptPart ==
    /\ pc = "Switch"
    /\ state = 4
    /\ S.type = "WORD"
    /\ loc' = [NoLoc EXCEPT !.part_name = lexer.currentSymbol.symbol]
    /\ pc' = "Part_name"
    /\ UNCHANGED <<files, i, lexer, S, state, obj, part_names, parts, err, tokens,
                   m, outputs, fx>>

\* AcceptPart_name leaving the WHITESPACE symbols out of the name
AcceptPart_name_NoBlanks ==
    /\ pc = "Part_name"
    /\ \E r \in NextSymbol(src, lexer) :
          /\ Call(r)
          /\ IF r.S.type # "NEWLINE"
             THEN /\ loc' = [loc EXCEPT !.part_name =
                                IF r.S.type = "WHITESPACE" THEN @ ELSE @ \o r.S.symbol]
                  /\ pc' = pc
             ELSE /\ loc' = loc
                  /\ pc' = "Part_id"
    /\ UNCHANGED <<files, i, state, obj, part_names, parts, err, m, outputs, fx>>

\* every symbol up to the NEWLINE is appended to the name
AcceptPart_name ==
    /\ pc = "Part_name"
    /\ \E r \in NextSymbol(src, lexer) :
          /\ Call(r)
          /\ IF r.S.type # "NEWLINE"
             THEN /\ loc' = [loc EXCEPT !.part_name = @ \o r.S.symbol]
                  /\ pc' = pc
             ELSE /\ loc' = loc
                  /\ pc' = "Part_id"
    /\ UNCHANGED <<files, i, state, obj, part_names, parts, err, m, outputs, fx>>

\* the next NUMBER is the part id
AcceptPart_id ==
    /\ pc = "Part_id"
    /\ \E r \in NextSymbol(src, lexer) :
          /\ Call(r)
          /\ IF r.S.type # "NUMBER"
             THEN UNCHANGED <<loc, pc, err, part_names>>
             ELSE LET pid == lexical_cast_int(r.S.symbol)
                  IN  IF pid.ok
                      THEN /\ part_names' = MapPut(part_names, pid.val, loc.part_name)
                           /\ loc' = NoLoc
                           /\ pc' = "Next"
                           /\ err' = err
                      ELSE /\ Throw("bad_lexical_cast", 0)
                           /\ UNCHANGED <<loc, part_names>>
    /\ UNCHANGED <<files, i, state, obj, parts, m, outputs, fx>>

(***************************************************************************)
(* main: the loop over the parts                                           *)
(***************************************************************************)
\* FiniteElementObject part = IsolatePart(parts, objects, it->first)
MainIsolate ==
    /\ pc = "Isolate"
    /\ LET r == IsolatePart(m.parts, m.objects, Head(m.todo))
       IN  IF r.err = "none"
           THEN /\ m' = [m EXCEPT !.part = r.part, !.objects = r.objects]
                /\ pc' = "Renumber"
                /\ err' = err
           ELSE /\ Throw(r.err, 0)
                /\ m' = [m EXCEPT !.objects = r.objects]
    /\ UNCHANGED <<files, i, lexer, S, state, loc, obj, part_names, parts, tokens,
                   outputs, fx>>

\* FiniteElementObject part_v2 = Renumber_Nodes(part)
MainRenumber ==
    /\ pc = "Renumber"
    /\ m' = [m EXCEPT !.part_v2 = Renumber_Nodes(m.part)]
    /\ pc' = "Output"
    /\ UNCHANGED <<files, i, lexer, S, state, loc, obj, part_names, parts, err,
                   tokens, outputs, fx>>

\* Print_summary and OutputToFiles, then the next part
MainOutput ==
    /\ pc = "Output"
    /\ LET pid   == Head(m.todo)
           names == MapTouch(m.part_names, pid, << >>)
       IN  /\ m' = [m EXCEPT !.part_names = names, !.todo = Tail(@)]
           /\ IF DistinctPids(m.part_v2) # 1
              THEN /\ Throw("more_than_one_part", 0)
                   /\ outputs' = outputs
              ELSE /\ outputs' = Append(outputs,
                                    [pid |-> pid, name |-> names[pid],
                                     nodes |-> m.part_v2.nodes,
                                     elements |-> m.part_v2.elements])
                   /\ pc' = IF Tail(m.todo) = << >> THEN "Done" ELSE "Isolate"
                   /\ err' = err
    /\ UNCHANGED <<files, i, lexer, S, state, loc, obj, part_names, parts, tokens, fx>>

Next ==
    \/ KeyFile_Append
    \/ ParseEnd
    \/ ParseSwitch
    \/ ParseNext
    \/ EnterAcceptNode
    \/ AcceptNode_sep
    \/ AcceptNode_coord
    \/ AcceptNode_skip
    \/ EnterAcceptElement
    \/ AcceptElement_sep0
    \/ AcceptElement_pid
    \/ AcceptElement_sep
    \/ AcceptElement_node
    \/ EnterAcceptPart
    \/ AcceptPart_name
    \/ AcceptPart_id
    \/ MainIsolate
    \/ MainRenumber
    \/ MainOutput

Spec == Init /\ [][Next]_vars

\* the program runs on while it has a step to take: main is sequential code
\* and nothing suspends it
\* F_TwoParts has the blocks of F_Mesh with two more element records and
\* is parsed by the same steps
InitLive == Start({<<f>> : f \in ScenarioFiles \ {F_TwoParts}})

SpecLive == InitLive /\ [][Next]_vars /\ WF_vars(Next)

(***************************************************************************)
(* IsolatePart and Renumber_Nodes as functions of a Document.  SpecDoc     *)
(* builds a KeyFile record by record, as AcceptNode and AcceptElement      *)
(* store them, and then applies the functions: IsolatePart to the built    *)
(* Document, Renumber_Nodes to the built Document, to an extracted one or  *)
(* to its own result.  fx holds the last application: the function op, its *)
(* argument arg (produced by from), the part id, the result res (with err  *)
(* "none") or the exception err, and the argument objects after the call.  *)
(***************************************************************************)
MaxNodes == 2
MaxElems == 2

NodeIdSet == 0..2
PidSet == {1, 2}
\* the id of the k-th element record read
EidSeq == <<7, 3, 5, 9>>
\* the coordinates of the k-th node record read, with id nid
NodeCoord(k, nid) == <<DInt(k), DInt(10 + nid), DInt(20 + k)>>
\* connectivity: the first two slots and the last one vary; the last slot
\* repeats the first, the second differs from a nonzero first
ConnSet ==
    {<<p[1], p[2], 0, 0, 0, 0, 0, p[1]>> :
        p \in {q \in NodeIdSet \X NodeIdSet : q[1] = 0 \/ q[2] # q[1]}}

InitDoc ==
    /\ files = << >>
    /\ i = 0
    /\ pc = "Build"
    /\ lexer = KeyFileLexer
    /\ S = Sym("END_OF_FILE", << >>)
    /\ state = 0
    /\ loc = NoLoc
    /\ obj = FiniteElementObject
    /\ part_names = EmptyMap
    /\ parts = EmptyMap
    /\ err = NoErr
    /\ tokens = << >>
    /\ m = NoMain
    /\ outputs = << >>
    /\ fx = NoFx

\* a node record is stored
DocAddNode ==
    /\ pc = "Build"
    /\ fx.op = "none"
    /\ Len(obj.nodes.nids) < MaxNodes
    /\ \E nid \in NodeIdSet :
          obj' = StoreNode(obj, nid, NodeCoord(Len(obj.nodes.nids) + 1, nid))
    /\ UNCHANGED <<files, i, pc, lexer, S, state, loc, part_names, parts, err,
                   tokens, m, outputs, fx>>

\* an element record is stored
DocAddElement ==
    /\ pc = "Build"
    /\ fx.op = "none"
    /\ Len(obj.elements.eids) < MaxElems
    /\ Len(obj.elements.eids) < Len(EidSeq)
    /\ \E pid \in PidSet, nids \in ConnSet :
          LET st == StoreElement([obj |-> obj, parts |-> parts],
                                 EidSeq[Len(obj.elements.eids) + 1], pid, nids)
          IN  /\ st.ok
              /\ obj' = st.obj
              /\ parts' = st.parts
    /\ UNCHANGED <<files, i, pc, lexer, S, state, loc, part_names, err, tokens, m,
                   outputs, fx>>

\* IsolatePart(parts, obj, pid) on the built Document
ApplyIsolatePart ==
    /\ pc = "Build"
    /\ fx.op = "none"
    /\ \E pid \in PidSet :
          LET r == IsolatePart(parts, obj, pid)
          IN  fx' = [op |-> "IsolatePart", from |-> "none", arg |-> obj, pid |-> pid,
                     res |-> r.part, objects |-> r.objects, err |-> r.err]
    /\ UNCHANGED <<files, i, pc, lexer, S, state, loc, obj, part_names, parts, err,
                   tokens, m, outputs>>

\* Renumber_Nodes on the built Document, on the Document IsolatePart
\* returned, or on the Document Renumber_Nodes returned
ApplyRenumber_Nodes ==
    /\ pc = "Build"
    /\ fx.err = "none"
    /\ ~(fx.op = "Renumber_Nodes" /\ fx.from = "Renumber_Nodes")
    /\ LET arg == IF fx.op = "none" THEN obj ELSE fx.res
       IN  fx' = [op |-> "Renumber_Nodes", from |-> fx.op, arg |-> arg, pid |-> fx.pid,
                  res |-> Renumber_Nodes(arg), objects |-> arg, err |-> "none"]
    /\ UNCHANGED <<files, i, pc, lexer, S, state, loc, obj, part_names, parts, err,
                   tokens, m, outputs>>

NextDoc ==
    \/ DocAddNode
    \/ DocAddElement
    \/ ApplyIsolatePart
    \/ ApplyRenumber_Nodes

SpecDoc == InitDoc /\ [][NextDoc]_vars

(***************************************************************************)
(* Properties                                                              *)
(***************************************************************************)
D0 == DInt(0)
D1 == DInt(1)

\* the positions of v in the sequence q
Positions(q, v) == {k \in DOMAIN q : q[k] = v}

\* the slots of all elements, element after element, slot 1 to slot 8
Flat(els) ==
    [t \in 1..(Len(els.n) * NSlots) |->
        els.n[((t - 1) \div NSlots) + 1][((t - 1) % NSlots) + 1]]

FirstPos(q, v) == CHOOSE k \in Positions(q, v) : \A j \in Positions(q, v) : k <= j

\* every nonzero connectivity slot of o names a node of o
RefsValid(o) == Range(Flat(o.elements)) \ {0} \subseteq Range(o.nodes.nids)

\* C1: parsing the end-to-end input (comma-separated records that start in
\* the first column) ends without error with nodes 1:(0,0,0) and 2:(1,0,0),
\* element 10 of part 5 with connectivity [1,2,0,0,0,0,0,0] and the name
\* "Plate" for part 5, and the part written has node ids 1,2 and element id 1.
C1_EndToEnd ==
    (files = <<F_EndToEnd>> /\ pc = "Done") =>
        /\ err = NoErr
        /\ obj.nodes = [nids |-> <<1, 2>>, x |-> <<D0, D1>>, y |-> <<D0, D0>>,
                        z |-> <<D0, D0>>]
        /\ obj.elements = [eids |-> <<10>>, pids |-> <<5>>,
                           n |-> <<<<1, 2, 0, 0, 0, 0, 0, 0>>>>]
        /\ part_names = (5 :> <<"P", "l", "a", "t", "e">>)
        /\ m.part.nodes.nids = <<1, 2>>
        /\ m.part.elements.eids = <<10>>
        /\ Len(outputs) = 1
        /\ outputs[1].nodes.nids = <<1, 2>>
        /\ outputs[1].elements.eids = <<1>>

\* C2: when every nonzero slot of D names a node of D, every element of
\* IsolatePart(D, p) has part id p, every nonzero node id in a slot of those
\* elements is exactly once in the output node list, with the coordinates D
\* holds for it, and node id 0 is not in the output node list.
C2_IsolateClosed ==
    (fx.op = "IsolatePart" /\ RefsValid(fx.arg)) =>
        /\ fx.err = "none"
        /\ \A j \in DOMAIN fx.res.elements.pids : fx.res.elements.pids[j] = fx.pid
        /\ \A nid \in Range(Flat(fx.res.elements)) \ {0} :
              /\ Cardinality(Positions(fx.res.nodes.nids, nid)) = 1
              /\ \A k \in Positions(fx.res.nodes.nids, nid) :
                    GetNode(fx.res.nodes, k - 1) = GetNodeById(fx.arg, nid)
        /\ 0 \notin Range(fx.res.nodes.nids)

\* two elements of the part share a node, and two nodes are copied
C2_Witness ==
    /\ fx.op = "IsolatePart"
    /\ RefsValid(fx.arg)
    /\ Len(fx.res.elements.eids) = 2
    /\ Len(fx.res.nodes.nids) = 2
    /\ fx.res.elements.n[1][1] = fx.res.elements.n[2][2]
    /\ fx.res.elements.n[1][1] # 0

\* the positions of the elements of o with part id p, in order
Matching(o, p) ==
    SelectSeq([j \in 1..Len(o.elements.pids) |-> j],
              LAMBDA j : o.elements.pids[j] = p)

\* C3: the element list of IsolatePart(D, p) is the subsequence of D's
\* elements with part id p, ids and connectivity unchanged, and the output
\* node list is ordered by first reference.
C3_IsolateOrder ==
    (fx.op = "IsolatePart" /\ fx.err = "none") =>
        LET sel  == Matching(fx.arg, fx.pid)
            els  == fx.res.elements
            flat == Flat(els)
            nids == fx.res.nodes.nids
        IN  /\ els.eids = [k \in 1..Len(sel) |-> fx.arg.elements.eids[sel[k]]]
            /\ els.pids = [k \in 1..Len(sel) |-> fx.arg.elements.pids[sel[k]]]
            /\ els.n = [k \in 1..Len(sel) |-> fx.arg.elements.n[sel[k]]]
            /\ Range(nids) = Range(flat) \ {0}
            /\ \A a, b \in DOMAIN nids :
                  a < b => FirstPos(flat, nids[a]) < FirstPos(flat, nids[b])

\* the first element of D is of another part and is left out, and the nodes
\* come out in another order than D has them
C3_Witness ==
    /\ fx.op = "IsolatePart"
    /\ fx.err = "none"
    /\ Len(fx.arg.elements.eids) = 2
    /\ fx.arg.elements.pids[1] # fx.pid
    /\ Len(fx.res.elements.eids) = 1
    /\ fx.arg.nodes.nids = <<1, 2>>
    /\ fx.res.nodes.nids = <<2, 1>>

\* C4: for an extracted Document with N nodes and M elements, the k-th node
\* of Renumber_Nodes has id k and the coordinates of the k-th input node,
\* the j-th element has id j and the part id of the j-th input element, and
\* each slot is 0 exactly when the input slot is 0 and otherwise the 1-based
\* position of the referenced node in the input node list.
C4_Renumber ==
    (fx.op = "Renumber_Nodes" /\ fx.from = "IsolatePart") =>
        LET a == fx.arg
            r == fx.res
            N == Len(a.nodes.nids)
            M == Len(a.elements.eids)
        IN  /\ r.nodes.nids = [k \in 1..N |-> k]
            /\ r.nodes.x = a.nodes.x
            /\ r.nodes.y = a.nodes.y
            /\ r.nodes.z = a.nodes.z
            /\ r.elements.eids = [j \in 1..M |-> j]
            /\ r.elements.pids = a.elements.pids
            /\ Len(r.elements.n) = M
            /\ \A j \in 1..M : \A k \in 1..NSlots :
                  /\ r.elements.n[j][k] = 0 <=> a.elements.n[j][k] = 0
                  /\ a.elements.n[j][k] # 0 =>
                        Positions(a.nodes.nids, a.elements.n[j][k]) = {r.elements.n[j][k]}

\* two nodes with ids that are not their positions, two elements, a used
\* and an unused slot
C4_Witness ==
    /\ fx.op = "Renumber_Nodes"
    /\ fx.from = "IsolatePart"
    /\ fx.arg.nodes.nids = <<2, 1>>
    /\ Len(fx.arg.elements.eids) = 2
    /\ fx.res.elements.n[1] = <<1, 2, 0, 0, 0, 0, 0, 1>>
    /\ fx.res.elements.n[2] = <<0, 2, 0, 0, 0, 0, 0, 0>>

\* C5: Renumber_Nodes applied to its own result returns that result: node
\* ids, coordinates and order, element ids, part ids, connectivity and both
\* id-to-position maps.
C5_RenumberIdempotent ==
    (fx.op = "Renumber_Nodes" /\ fx.from = "Renumber_Nodes") => fx.res = fx.arg

\* the second application, where the first one was given a Document whose
\* node ids 2 and 0 and element ids were not dense
C5_Witness ==
    /\ fx.op = "Renumber_Nodes"
    /\ fx.from = "Renumber_Nodes"
    /\ obj.nodes.nids = <<2, 0>>
    /\ fx.arg.nodes.nids = <<1, 2>>
    /\ Len(fx.arg.elements.eids) = 2
    /\ fx.arg.elements.n[1][1] # 0

\* the tokens of "1,2.5,-3.2E-01\n" with the stream positions each one spans
CsvExpected ==
    <<[type |-> "NUMBER", symbol |-> <<"1">>, start |-> 0, end |-> 1],
      [type |-> "COMMA", symbol |-> <<",">>, start |-> 1, end |-> 2],
      [type |-> "NUMBER", symbol |-> <<"2", ".", "5">>, start |-> 2, end |-> 5],
      [type |-> "COMMA", symbol |-> <<",">>, start |-> 5, end |-> 6],
      [type |-> "NUMBER", symbol |-> <<"-", "3", ".", "2", "E", "-", "0", "1">>,
       start |-> 6, end |-> 14],
      [type |-> "NEWLINE", symbol |-> <<"\n">>, start |-> 14, end |-> 15]>>

\* C6: from a fresh tokenizer the line "1,2.5,-3.2E-01\n" gives exactly
\* Number("1"), Comma, Number("2.5"), Comma, Number("-3.2E-01"), Newline,
\* each Comma being one consumed character.
C6_CsvTokens ==
    files = <<F_CsvLine>> =>
        \A k \in DOMAIN tokens : k <= Len(CsvExpected) => tokens[k] = CsvExpected[k]

\* the position after the line that starts at position p: after its newline,
\* or the end of the text
LineEnd(text, p) ==
    LET nl == {q \in (p + 1)..Len(text) : text[q] = "\n"}
    IN  IF nl = {} THEN Len(text) ELSE CHOOSE q \in nl : \A r \in nl : q <= r

\* the position after the run of lines starting with '$' that begins at p
RECURSIVE CommentRunEnd(_, _)
CommentRunEnd(text, p) ==
    IF p < Len(text) /\ text[p + 1] = "$"
    THEN CommentRunEnd(text, LineEnd(text, p))
    ELSE p

AtLineStart(text, p) == p = 0 \/ text[p] = "\n"

\* C7: a NextSymbol call made at the start of a line whose first character
\* is '$' discards that line and every following '$' line in full, newline
\* included, makes no token of them, and returns the token of the content
\* after them.
C7_CommentsDiscarded ==
    \A k \in DOMAIN tokens :
        LET t == tokens[k]
            q == CommentRunEnd(src, t.start)
        IN  (AtLineStart(src, t.start) /\ q > t.start) =>
                /\ t.type # "COMMENT"
                /\ t.end >= q
                /\ \/ t.symbol = Text(src, q, t.end)
                   \/ t.type = "COMMA" /\ t.end = q /\ peek(src, q) = ","

\* a Number returned by a call that first discarded two comment lines
C7_Witness ==
    \E k \in DOMAIN tokens :
        LET t == tokens[k]
        IN  /\ AtLineStart(src, t.start)
            /\ peek(src, t.start) = "$"
            /\ LineEnd(src, t.start) < CommentRunEnd(src, t.start)
            /\ t.type = "NUMBER"

\* C8: parsing "*NODE\n1 0.0\n" raises a syntax error that reports line 2,
\* and no node is added.
C8_MalformedLine ==
    (files = <<F_Malformed>> /\ pc = "Done") =>
        /\ err.kind = "malformed"
        /\ err.line = 2
        /\ obj.nodes = NoNodes

\* element ids are stored once, the index and the sublists agree with the
\* element list, and the duplicate-id error ends the run before main's loop
C9_Stored ==
    /\ \A a, b \in DOMAIN obj.elements.eids :
          a # b => obj.elements.eids[a] # obj.elements.eids[b]
    /\ DOMAIN obj.element_index = Range(obj.elements.eids)
    /\ \A p \in DOMAIN parts :
          LET sel == Matching(obj, p)
          IN  parts[p].eids = [k \in 1..Len(sel) |-> obj.elements.eids[sel[k]]]
    /\ err.kind = "duplicate_element" =>
          /\ pc = "Done"
          /\ loc.eid \in Range(obj.elements.eids)
          /\ m = NoMain
          /\ outputs = << >>

\* the step that completes a record with a stored id raises the error and
\* changes nothing
C9_Raised ==
    (/\ pc = "Elem_node"
     /\ Len(loc.nids) = NSlots - 1
     /\ loc.eid \in Range(obj.elements.eids)
     /\ S'.type = "NUMBER"
     /\ lexical_cast_double(S'.symbol).ok)
        => /\ err'.kind = "duplicate_element"
           /\ pc' = "Done"
           /\ obj' = obj
           /\ parts' = parts

\* C9: no element id is ever stored twice; when a complete element record
\* carries an id already in the Document the step raises the error and
\* leaves the element list, the element index and the sublists as they
\* were; and after that error nothing is isolated, renumbered or written.
C9_DuplicateElement == []C9_Stored /\ [][C9_Raised]_vars

\* the error raised in the second file for an element id of the first
C9_Witness ==
    /\ err.kind = "duplicate_element"
    /\ i = 1
    /\ Len(obj.elements.eids) >= 1

\* C10: after a syntax error the Document holds nothing of the input that
\* raised it (stated for the first input: the Document is empty).
C10_NothingRetained ==
    (err.kind = "malformed" /\ i = 0) =>
        /\ obj = FiniteElementObject
        /\ part_names = EmptyMap
        /\ parts = EmptyMap

\* C11: every parse of the run finishes: each file reaches END_OF_FILE and
\* Parse returns, or an error is raised.
C11_ParseFinishes == <>(i = Len(files) \/ err.kind # "none")

\* the keywords of the input format and the block state each one selects
UpperWord(w) == [k \in DOMAIN w |-> ToUpper(w[k])]

NodeKeywords == {<<"N", "O", "D", "E">>}

ElementKeywords ==
    {<<"E", "L", "E", "M", "E", "N", "T", "_", "S", "O", "L", "I", "D">>,
     <<"E", "L", "E", "M", "E", "N", "T", "_", "S", "H", "E", "L", "L">>,
     <<"E", "L", "E", "M", "E", "N", "T", "_", "B", "E", "A", "M">>}

PartKeywords ==
    {<<"P", "A", "R", "T">>,
     <<"P", "A", "R", "T", "_", "I", "N", "E", "R", "T", "I", "A">>}

BlockState(sym) ==
    IF sym.type # "WORD" THEN 0
    ELSE IF UpperWord(sym.symbol) \in NodeKeywords THEN 2
    ELSE IF UpperWord(sym.symbol) \in ElementKeywords THEN 3
    ELSE IF UpperWord(sym.symbol) \in PartKeywords THEN 4
    ELSE 0

\* the positions of the lines of text that start with '*'
StarLines(text) ==
    {p \in 0..(Len(text) - 1) : AtLineStart(text, p) /\ text[p + 1] = "*"}

\* the start of the last line starting with '*' before position q, or -1
BlockStart(text, q) ==
    LET ps == {p \in StarLines(text) : p < q}
    IN  IF ps = {} THEN -1 ELSE CHOOSE p \in ps : \A r \in ps : r <= p

\* the symbol that follows the '*' at position p
SymbolAfterStar(text, p) ==
    NextSymbol1(text, [KeyFileLexer EXCEPT !.pos = p + 1, !.state = 1]).S

\* position q is in a block whose keyword is a word that is not recognized
InUnknownBlock(text, q) ==
    LET p == BlockStart(text, q)
    IN  /\ p >= 0
        /\ SymbolAfterStar(text, p).type = "WORD"
        /\ BlockState(SymbolAfterStar(text, p)) = 0

ParsePcs ==
    {"Switch", "Next", "Node_sep", "Node_coord", "Node_skip", "Elem_sep0",
     "Elem_pid", "Elem_sep", "Elem_node", "Part_name", "Part_id"}

\* C12: a step of the parse taken while the stream is inside a block with
\* an unrecognized keyword raises no error and adds no node, no element and
\* no part name.
C12_UnknownBlockSkipped ==
    [][(/\ pc \in ParsePcs
        /\ i' = i
        /\ InUnknownBlock(src, lexer.pos))
          => /\ obj' = obj
             /\ parts' = parts
             /\ part_names' = part_names
             /\ err' = err]_vars

\* the 1-based positions of the elements of o that have a nonzero slot
\* naming no node of o
Dangling(o) ==
    {k \in DOMAIN o.elements.n :
        \E s \in 1..NSlots :
            o.elements.n[k][s] # 0 /\ o.elements.n[k][s] \notin Range(o.nodes.nids)}

\* C13: IsolatePart of a part that has an element with a slot naming an
\* absent node, and Renumber_Nodes of a Document that has such an element,
\* end in an error.
C13_DanglingIsError ==
    /\ (/\ fx.op = "IsolatePart"
        /\ \E k \in Dangling(fx.arg) : fx.arg.elements.pids[k] = fx.pid)
          => fx.err # "none"
    /\ (fx.op = "Renumber_Nodes" /\ Dangling(fx.arg) # {}) => fx.err # "none"

\* C14: after IsolatePart or Renumber_Nodes the Document passed to it is as
\* it was before the call: node list, element list and both maps.
C14_SourceUnchanged == fx.op # "none" => fx.objects = fx.arg

\* C15: the Document read from the input files holds no node with id 0,
\* neither in the node list nor in the node index.
C15_NoNodeZero ==
    /\ 0 \notin Range(obj.nodes.nids)
    /\ 0 \notin DOMAIN obj.node_index

\* C16: every ASTERISK the lexer returns is handed to the switch of Parse,
\* and the switch answers an ASTERISK with state 1, the keyword step,
\* whatever the state was.
C16_AsteriskReenters ==
    [][/\ (/\ lexer' # lexer
           /\ lexer'.state = 1
           /\ lexer'.currentSymbol.type = "ASTERISK")
             => pc' = "Switch"
       /\ (pc = "Switch" /\ S.type = "ASTERISK" /\ state # 1)
             => state' = 1]_vars

\* C17: in the keyword step the symbol that follows the ASTERISK selects
\* the state: NODE gives 2, the three ELEMENT keywords 3, PART and
\* PART_INERTIA 4, compared without regard to case and in full; any other
\* word and any symbol that is not a word give 0.
C17_KeywordSelects ==
    [][(pc = "Switch" /\ state = 1 /\ S.type # "END_OF_FILE")
          => state' = BlockState(S)]_vars

\* the keyword step has answered an ELEMENT keyword written in lower or
\* mixed case with state 3
C17_Witness ==
    /\ pc = "Next"
    /\ state = 3
    /\ S.type = "WORD"
    /\ S.symbol \notin ElementKeywords
    /\ UpperWord(S.symbol) \in ElementKeywords

\* the positions in the code whose next step is a lexer->NextSymbol() call
CallPcs == ParsePcs \ {"Switch"}

\* C18: after NextSymbol has returned END_OF_FILE (the lexer is in state -1)
\* the program is at no position from which it calls NextSymbol again.
C18_NoCallAfterEnd == ~(lexer.state = -1 /\ pc \in CallPcs)

\* C19: in a node record a symbol other than WHITESPACE or COMMA where a
\* separator is required, and a symbol other than a NUMBER where a
\* coordinate is required, raise the error that carries the current line
\* number, and no node is added.
C19_NodeFields ==
    [][(/\ lexer.state # -1
        /\ \/ pc = "Node_sep" /\ S'.type \notin {"WHITESPACE", "COMMA"}
           \/ pc = "Node_coord" /\ S'.type # "NUMBER")
          => /\ err'.kind = "malformed"
             /\ err'.line = lexer'.current_line
             /\ obj' = obj]_vars

\* inside an element record the symbols read so far are as the record
\* requires: a separator before the part id and before every connectivity
\* field, a NUMBER for the part id and for every field read
C20_Shape ==
    /\ pc \in {"Elem_pid", "Elem_node"} => S.type \in {"WHITESPACE", "COMMA"}
    /\ pc \in {"Elem_sep0", "Elem_sep"} => S.type = "NUMBER"
    /\ pc \in {"Elem_sep", "Elem_node"} => Len(loc.nids) < NSlots

\* a symbol of the wrong type in a required position raises the error with
\* the line number and adds nothing
C20_Rejected ==
    (\/ pc \in {"Elem_sep0", "Elem_sep"} /\ S'.type \notin {"WHITESPACE", "COMMA"}
     \/ pc \in {"Elem_pid", "Elem_node"} /\ S'.type # "NUMBER")
        => /\ err'.kind = "malformed"
           /\ err'.line = lexer'.current_line
           /\ pc' = "Done"
           /\ obj' = obj
           /\ parts' = parts

\* an element is added only by the step that reads the eighth field
C20_Accepted ==
    (obj'.elements # obj.elements \/ parts' # parts)
        => /\ pc = "Elem_node"
           /\ Len(loc.nids) = NSlots - 1
           /\ S'.type = "NUMBER"
           /\ Len(obj'.elements.eids) = Len(obj.elements.eids) + 1

\* C20: an element record is stored only when it is id, separator, NUMBER
\* part id and 8 times separator and NUMBER; a record that ends before
\* its 8th field, or has another symbol where a separator or a NUMBER is
\* required, raises the error with the line number and adds no element to
\* the list, the index or a sublist.
C20_ElementFields == []C20_Shape /\ [][C20_Rejected /\ C20_Accepted]_vars

\* the error raised by the NEWLINE after the fourth connectivity field
C20_Witness ==
    /\ err.kind = "malformed"
    /\ S.type = "NEWLINE"
    /\ Len(loc.nids) = 4
    /\ obj.elements = NoElements
    /\ parts = EmptyMap

\* the part name being read is, character for character, the text of the
\* stream that ends at the lexer's position
C21_NameVerbatim ==
    (pc = "Part_name" /\ lexer.state # -1)
        => /\ Len(loc.part_name) <= lexer.pos
           /\ loc.part_name = Text(src, lexer.pos - Len(loc.part_name), lexer.pos)

\* the name starts with the WORD that the switch of Parse finds in state 4;
\* it grows by the text of every symbol that is not the NEWLINE; after the
\* NEWLINE every symbol that is not a NUMBER is passed over, and the first
\* NUMBER registers the name under its value, in place of an earlier name
C21_Steps ==
    /\ (pc = "Switch" /\ pc' = "Part_name")
          => (state = 4 /\ S.type = "WORD" /\ loc'.part_name = S.symbol)
    /\ (pc = "Part_name" /\ lexer.state # -1)
          => IF S'.type = "NEWLINE"
             THEN pc' = "Part_id" /\ loc'.part_name = loc.part_name
             ELSE pc' = "Part_name" /\ loc'.part_name = loc.part_name \o S'.symbol
    /\ (pc = "Part_id" /\ lexer.state # -1 /\ S'.type # "NUMBER")
          => (pc' = "Part_id" /\ loc' = loc /\ part_names' = part_names)
    /\ (/\ pc = "Part_id"
        /\ lexer.state # -1
        /\ S'.type = "NUMBER"
        /\ AllDigits(S'.symbol))
          => /\ pc' = "Next"
             /\ part_names' =
                  [k \in DOMAIN part_names \cup {DigitsVal(S'.symbol)} |->
                      IF k = DigitsVal(S'.symbol) THEN loc.part_name
                      ELSE part_names[k]]

\* C21: the part name is the text of the first WORD read in the part block
\* and of everything after it up to the NEWLINE, blanks included; the
\* first NUMBER after that NEWLINE is the part id under which the name is
\* registered, replacing an earlier name for that id.
C21_PartName == []C21_NameVerbatim /\ [][C21_Steps]_vars

\* a name with a blank in it has replaced an earlier name of part 5
C21_Witness ==
    /\ files = <<F_PartTwice>>
    /\ 5 \in DOMAIN part_names
    /\ part_names[5] = <<"N", "e", "w", " ", "1">>

\* the call that returned t consumed more than the text of t: it discarded
\* comment lines first (a COMMA is returned without being consumed)
Discards(t) ==
    IF t.type = "COMMA" THEN t.end > t.start
    ELSE t.end - t.start > Len(t.symbol)

\* C22: an ASTERISK symbol is the first character of a line, and a call
\* discards comment lines only when it starts at the first character of a
\* line.
C22_SpecialAtLineStart ==
    \A k \in DOMAIN tokens :
        LET t == tokens[k]
        IN  /\ t.type = "ASTERISK" => AtLineStart(src, t.end - 1)
            /\ Discards(t) => AtLineStart(src, t.start)

\* the length of the longest prefix of s of the shape: optional '-', digits,
\* optional '.' and digits, optional 'e' or 'E' with an optional sign and
\* digits
NumberShapeEnd(s) ==
    LET p1 == IF peek(s, 0) = "-" THEN 1 ELSE 0
        p2 == ScanIn(s, p1, Digits)
        p3 == IF peek(s, p2) = "." THEN ScanIn(s, p2 + 1, Digits) ELSE p2
        p4 == IF peek(s, p3) \in {"e", "E"}
              THEN LET q == IF peek(s, p3 + 1) \in {"+", "-"} THEN p3 + 2 ELSE p3 + 1
                   IN  ScanIn(s, q, Digits)
              ELSE p3
    IN  p4

\* C23: the text of every NUMBER symbol has the shape optional '-', digits,
\* optional '.' and digits, optional exponent marker with optional sign and
\* digits; a sign is part of the text only at the front or directly after
\* the exponent marker.
C23_NumberShape ==
    \A k \in DOMAIN tokens :
        tokens[k].type = "NUMBER"
            => NumberShapeEnd(tokens[k].symbol) = Len(tokens[k].symbol)

\* C24: when every file has been parsed without error, every nonzero
\* connectivity slot of every element names a node of the Document.
C24_RefsPresent == (files # << >> /\ i = Len(files)) => RefsValid(obj)

\* C25: the node list holds every id once, and the node index sends each
\* id to the position at which it was first inserted.
C25_NodeIdsUnique ==
    /\ \A a, b \in DOMAIN obj.nodes.nids :
          a # b => obj.nodes.nids[a] # obj.nodes.nids[b]
    /\ \A id \in Range(obj.nodes.nids) :
          /\ id \in DOMAIN obj.node_index
          /\ obj.node_index[id] = FirstPos(obj.nodes.nids, id) - 1

\* no ASTERISK followed by a recognized keyword is among the symbols tk
NoKeywordYet(tk) ==
    \A k \in 1..(Len(tk) - 1) :
        ~(tk[k].type = "ASTERISK" /\ BlockState(tk[k + 1]) # 0)

\* C26: Parse starts every file in state 0, whatever the state at the end
\* of the file before, and until the lexer has returned an ASTERISK
\* followed by a recognized keyword no step adds a node, an element or a
\* part name.
C26_StartsInSeekKeyword ==
    [][/\ pc = "Append" => state' = 0
       /\ (/\ pc \in ParsePcs \cup {"Append"}
           /\ i' = i
           /\ Len(tokens') < MaxTokens
           /\ NoKeywordYet(tokens'))
             => /\ obj' = obj
                /\ parts' = parts
                /\ part_names' = part_names]_vars

\* the element record at the head of the second file has been passed over
\* in state 0, the first file having ended inside its element block
C26_Witness ==
    /\ files = <<F_Mesh, F_RecordsFirst>>
    /\ i = 1
    /\ pc = "Next"
    /\ state = 0
    /\ S = Sym("NUMBER", <<"1", "2">>)
    /\ obj.elements.eids = <<10>>
    /\ Len(obj.nodes.nids) = 2

\* the map ix sends the id at each position of ids to that position
\* (positions count from 0, as in the vectors) and has no other key
IndexOf(ids, ix) ==
    /\ DOMAIN ix = Range(ids)
    /\ \A k \in DOMAIN ids : ix[ids[k]] = k - 1

MapsConsistent(o) ==
    /\ IndexOf(o.nodes.nids, o.node_index)
    /\ IndexOf(o.elements.eids, o.element_index)

\* C27: the Document built from the records read, the Document IsolatePart
\* returns and the Document Renumber_Nodes returns each have a node map
\* sending the id at every position of the node list to that position, an
\* element map doing the same for the element list, and no other keys.
C27_MapsConsistent ==
    /\ MapsConsistent(obj)
    /\ (fx.op # "none" /\ fx.err = "none") => MapsConsistent(fx.res)

\* the element ids and the connectivity of els, in order
ElementRows(els) == [k \in DOMAIN els.eids |-> <<els.eids[k], els.n[k]>>]

\* the lists parts of the KeyFile agree with extraction from its Document o
SublistsAgree(ps, o) ==
    /\ DOMAIN ps = Range(o.elements.pids)
    /\ \A p \in DOMAIN ps :
          LET r == IsolatePart(ps, o, p)
          IN  r.err = "none"
                 => ElementRows(ps[p]) = ElementRows(r.part.elements)

\* C28: when a file has been parsed without error, the keys of parts are
\* exactly the part ids of the element list, and for each key p the element
\* ids and connectivity of parts[p], in order, are those of the Document
\* IsolatePart returns for p; the Document main extracts has the rows of
\* the part's list, and the Document main passes to OutputToFiles has at
\* least one element and exactly one distinct part id.
C28_SublistsAgree ==
    /\ (pc \in {"Append", "Isolate", "Done"} /\ i >= 1 /\ err.kind = "none")
          => SublistsAgree(parts, obj)
    /\ pc = "Renumber"
          => ElementRows(m.part.elements) = ElementRows(m.parts[Head(m.todo)])
    /\ pc = "Output"
          => /\ Len(m.part_v2.elements.eids) >= 1
             /\ DistinctPids(m.part_v2) = 1

\* part 7 of F_TwoParts, whose two elements have an element of part 8
\* between them, is about to be written
C28_Witness ==
    /\ files = <<F_TwoParts>>
    /\ pc = "Output"
    /\ Head(m.todo) = 7
    /\ parts[7].eids = <<20, 22>>
    /\ m.part_v2.elements.pids = <<7, 7>>
    /\ DOMAIN parts = {7, 8}

====
